---- MODULE Spec2Model ----
(***************************************************************************)
(* A model of src/src/placement.py (HierarchicalPcb): the position         *)
(* transform between two anchor footprints, the group manager, and the     *)
(* item copy functions that replicate a template board onto a target.      *)
(***************************************************************************)
EXTENDS Integers, Sequences, FiniteSets, TLC

(***************************************************************************)
(* Floating point.  translate() computes in IEEE doubles and truncates     *)
(* with int().  For angles that are multiples of 90 degrees every          *)
(* intermediate value is an integer plus a residue far below 1, so a       *)
(* double is kept here as [n |-> integer part, r |-> residue], the residue *)
(* counted in units of 2^-54 / ResUnit.                                    *)
(***************************************************************************)
Sgn(x) == IF x > 0 THEN 1 ELSE IF x < 0 THEN -1 ELSE 0

Abs(x) == IF x < 0 THEN -x ELSE x

RECURSIVE Pow2(_)
Pow2(e) == IF e <= 0 THEN 1 ELSE 2 * Pow2(e - 1)

RECURSIVE FloorLog2(_)
FloorLog2(m) == IF m < 2 THEN 0 ELSE 1 + FloorLog2(m \div 2)

\* 2^-54 in residue units.
ResUnit == 1000

\* cos(radians(90)) as a double is 0x1.1a62633145c07p-54 = 1.103 * 2^-54.
CosQuarterRes == 1103

Flt(n, r) == [n |-> n, r |-> r]

\* math.sin(math.radians(deg)), deg a multiple of 90 in -270..270.
Sin(deg) ==
    CASE deg = 0    -> Flt(0, 0)
      [] deg = 90   -> Flt(1, 0)
      [] deg = -90  -> Flt(-1, 0)
      [] deg = 180  -> Flt(0, 2 * CosQuarterRes)
      [] deg = -180 -> Flt(0, -2 * CosQuarterRes)
      [] deg = 270  -> Flt(-1, 0)
      [] deg = -270 -> Flt(1, 0)

\* math.cos(math.radians(deg)), deg a multiple of 90 in -270..270.
Cos(deg) ==
    CASE deg = 0    -> Flt(1, 0)
      [] deg = 90   -> Flt(0, CosQuarterRes)
      [] deg = -90  -> Flt(0, CosQuarterRes)
      [] deg = 180  -> Flt(-1, 0)
      [] deg = -180 -> Flt(-1, 0)
      [] deg = 270  -> Flt(0, -3 * CosQuarterRes)
      [] deg = -270 -> Flt(0, -3 * CosQuarterRes)

\* int * float: the integer is converted exactly, the product of an integer
\* with a tiny residue is a tiny residue again.
FlMulInt(k, f) == Flt(k * f.n, k * f.r)

FlNeg(f) == Flt(-f.n, -f.r)

\* Spacing of the doubles next to the integer n on the side of a residue of
\* sign s: 2^(e-52) in the binade of |n|, half of that just below a power of
\* two.
GridStep(n, s) ==
    LET e == FloorLog2(Abs(n))
        up == 4 * ResUnit * Pow2(e)
    IN  IF Abs(n) = Pow2(e) /\ s # Sgn(n) THEN up \div 2 ELSE up

\* Round-to-nearest, ties to even, of num / den (both positive).
RoundHalfEven(num, den) ==
    LET q == num \div den
        twice == 2 * (num - q * den)
    IN  IF twice > den THEN q + 1
        ELSE IF twice < den THEN q
        ELSE IF q % 2 = 0 THEN q ELSE q + 1

\* The double nearest to the exact sum of two such doubles.
FlAdd(x, y) ==
    LET n == x.n + y.n
        r == x.r + y.r
    IN  IF n = 0 \/ r = 0 THEN Flt(n, r)
        ELSE LET h == GridStep(n, Sgn(r))
             IN  Flt(n, Sgn(r) * h * RoundHalfEven(Abs(r), h))

\* Python's int(): truncation toward zero.
FlInt(x) ==
    IF x.n = 0 \/ x.r = 0 \/ Sgn(x.r) = Sgn(x.n) THEN x.n ELSE x.n - Sgn(x.n)

(***************************************************************************)
(* PositionTransform.  An anchor is a record [pos |-> <<x, y>>, deg |-> d]. *)
(***************************************************************************)
Anchor(pos, deg) == [pos |-> pos, deg |-> deg]

\* translate with the rotation taken in the other direction.
translate_reversed(anchor_template, anchor_mutate, pos_template) ==
    LET delta_x == pos_template[1] - anchor_template.pos[1]
        delta_y == pos_template[2] - anchor_template.pos[2]
        rotation == anchor_mutate.deg - anchor_template.deg
        new_x == FlAdd(FlAdd(FlNeg(FlMulInt(delta_y, Sin(rotation))),
                             FlMulInt(delta_x, Cos(rotation))),
                       Flt(anchor_mutate.pos[1], 0))
        new_y == FlAdd(FlAdd(FlMulInt(delta_y, Cos(rotation)),
                             FlMulInt(delta_x, Sin(rotation))),
                       Flt(anchor_mutate.pos[2], 0))
    IN  <<FlInt(new_x), FlInt(new_y)>>

translate(anchor_template, anchor_mutate, pos_template) ==
    LET delta_x == pos_template[1] - anchor_template.pos[1]
        delta_y == pos_template[2] - anchor_template.pos[2]
        rotation == anchor_mutate.deg - anchor_template.deg
        new_x == FlAdd(FlAdd(FlMulInt(delta_y, Sin(rotation)),
                             FlMulInt(delta_x, Cos(rotation))),
                       Flt(anchor_mutate.pos[1], 0))
        new_y == FlAdd(FlAdd(FlMulInt(delta_y, Cos(rotation)),
                             FlNeg(FlMulInt(delta_x, Sin(rotation)))),
                       Flt(anchor_mutate.pos[2], 0))
    IN  <<FlInt(new_x), FlInt(new_y)>>

orient(anchor_template, anchor_mutate, rot_template) ==
    rot_template - anchor_template.deg + anchor_mutate.deg

(***************************************************************************)
(* The boards.  "S" is the template (source) board and "T" the target      *)
(* board.  Footprints are never created or deleted and live in fps; tracks, *)
(* vias, zones and drawings live in items, where Duplicate() adds entries.  *)
(* A group is [name, items]; groups[b] lists the groups of board b in the   *)
(* order Groups() enumerates them, and <<b, i>> refers to the i-th of them. *)
(***************************************************************************)
VARIABLES fps, items, groups, ctx, pc, run, netMapping, fpTranslator,
          log, raised, moved, last, pre, claimed, snap

vars == <<fps, items, groups, ctx, pc, run, netMapping, fpTranslator,
          log, raised, moved, last, pre, claimed, snap>>

\* class ErrorLevel
INFO == 0

WARNING == 1

ERROR == 2

Boards == {"S", "T"}

\* Number of replication runs explored.
MaxRuns == 2

\* The footprints of the two boards: the anchors SA and TA, and two more
\* footprints on each board.
Ids == [SA |-> 1, F1 |-> 2, F2 |-> 3, TA |-> 4, T1 |-> 5, T2 |-> 6]

FpIds == {Ids.SA, Ids.F1, Ids.F2, Ids.TA, Ids.T1, Ids.T2}

\* The group name a run is configured with, and another name.
groupName == "inst"

otherName == "other"

NoGroup == <<"none", 0>>

NoCtx == [anchor_template |-> 0, anchor_mutate |-> 0, sourceBoard |-> "none",
          targetBoard |-> "none", board |-> "none", group |-> NoGroup]

Volatile == {"track", "via", "zone", "drawing"}

Field(name, text, pos, deg) == [name |-> name, text |-> text, pos |-> pos, deg |-> deg]

Footprint(board, pos, deg, flipped, pads, ref, props) ==
    [board |-> board, pos |-> pos, deg |-> deg, flipped |-> flipped, pads |-> pads,
     fields |-> <<Field("Reference", ref, <<pos[1], pos[2] - 1>>, deg),
                  Field("Value", "R", <<pos[1], pos[2] + 1>>, deg)>>,
     LocalClearance |-> props, LocalSolderMaskMargin |-> props,
     LocalSolderPasteMargin |-> props, LocalSolderPasteMarginRatio |-> props,
     ZoneConnection |-> props]

Item(cat, board, net, pos, end, deg, free) ==
    [cat |-> cat, board |-> board, net |-> net, pos |-> pos, end |-> end,
     deg |-> deg, free |-> free]

Group(name, members) == [name |-> name, items |-> members]

\* What a call works on and leaves behind: the boards, with the flag or value
\* it returns (moved, ret), the exception it raises, and the items it passed
\* to GroupManager.move.
World(f, i, g, cl) ==
    [fps |-> f, items |-> i, groups |-> g, moved |-> FALSE, raised |-> "none",
     claimed |-> cl, ret |-> <<>>]

Raise(w, exc) == [w EXCEPT !.raised = exc]

\* The category of an item, as isinstance(item.Cast(), ...) sees it.
CatOf(w, id) == IF id \in FpIds THEN "footprint" ELSE w.items[id].cat

BoardOf(w, id) == IF id \in FpIds THEN w.fps[id].board ELSE w.items[id].board

ExistingGroups(g) == UNION {{<<b, i>> : i \in 1..Len(g[b])} : b \in Boards}

GroupAt(g, r) == g[r[1]][r[2]]

\* item.GetParentGroup(): the group that holds the item, or None.
GetParentGroup(g, id) ==
    LET holders == {r \in ExistingGroups(g) : id \in GroupAt(g, r).items}
    IN  IF holders = {} THEN NoGroup ELSE CHOOSE r \in holders : TRUE

\* group.RemoveItem(item)
RemoveItem(g, r, id) ==
    [g EXCEPT ![r[1]][r[2]].items = @ \ {id}]

\* group.AddItem(item)
AddItem(g, r, id) ==
    [g EXCEPT ![r[1]][r[2]].items = @ \cup {id}]

(***************************************************************************)
(* GroupManager                                                            *)
(***************************************************************************)
\* A search loop that leaves at the first group whose name matches.
RECURSIVE FindGroupFirst(_, _, _, _)
FindGroupFirst(seq, group_name, i, retGroup) ==
    IF i > Len(seq) THEN retGroup
    ELSE IF seq[i].name = group_name THEN i
    ELSE FindGroupFirst(seq, group_name, i + 1, retGroup)

\* The loop of _create_or_get: retGroup is overwritten by every group whose
\* name matches, so it ends as the last match (0 for None).
RECURSIVE FindGroup(_, _, _, _)
FindGroup(seq, group_name, i, retGroup) ==
    IF i > Len(seq) THEN retGroup
    ELSE FindGroup(seq, group_name, i + 1,
                   IF seq[i].name = group_name THEN i ELSE retGroup)

\* GroupManager._create_or_get: [groups, group].
create_or_get(g, board, group_name) ==
    LET retGroup == FindGroup(g[board], group_name, 1, 0)
    IN  IF retGroup = 0
        THEN [groups |-> [g EXCEPT ![board] = Append(@, Group(group_name, {}))],
              group |-> <<board, Len(g[board]) + 1>>]
        ELSE [groups |-> g, group |-> <<board, retGroup>>]

\* GroupManager.move without the parent_group.RemoveItem(item) call.
move_keep_parent(w, c, item) ==
    LET parent_group == GetParentGroup(w.groups, item)
        wrong == parent_group # NoGroup
                 /\ GroupAt(w.groups, parent_group).name # GroupAt(w.groups, c.group).name
    IN  [w EXCEPT !.groups = IF wrong \/ parent_group = NoGroup
                             THEN AddItem(w.groups, c.group, item) ELSE w.groups,
                  !.moved = wrong, !.claimed = @ \cup {item}]

\* GroupManager.move: the world after the call, with the returned flag.
move(w, c, item) ==
    LET parent_group == GetParentGroup(w.groups, item)
        wrong == parent_group # NoGroup
                 /\ GroupAt(w.groups, parent_group).name # GroupAt(w.groups, c.group).name
        g1 == IF wrong THEN RemoveItem(w.groups, parent_group, item) ELSE w.groups
        parent1 == IF wrong THEN NoGroup ELSE parent_group
        g2 == IF parent1 = NoGroup THEN AddItem(g1, c.group, item) ELSE g1
    IN  [w EXCEPT !.groups = g2, !.moved = wrong, !.claimed = @ \cup {item}]

(***************************************************************************)
(* ReplicateContext                                                        *)
(***************************************************************************)
\* GroupManager.__init__(board, groupName) within the context c being built.
GroupManager_init(w, c, board, name) ==
    [w EXCEPT !.groups = create_or_get(w.groups, board, name).groups,
              !.ret = [c EXCEPT !.board = board,
                                !.group = create_or_get(w.groups, board, name).group]]

\* ReplicateContext.__init__: GroupManager.__init__ is given _sourceBoard.
\* The context is returned in ret.
ReplicateContext_init(w, sourceAnchorFootprint, targetAnchorFootprint, name) ==
    GroupManager_init(w,
                      [anchor_template |-> sourceAnchorFootprint,
                       anchor_mutate |-> targetAnchorFootprint,
                       sourceBoard |-> w.fps[sourceAnchorFootprint].board,
                       targetBoard |-> w.fps[targetAnchorFootprint].board,
                       board |-> "none", group |-> NoGroup],
                      w.fps[sourceAnchorFootprint].board, name)

\* context.translate / context.orient: the anchors are read when called.
ctx_translate(w, c, pos) ==
    translate(Anchor(w.fps[c.anchor_template].pos, w.fps[c.anchor_template].deg),
              Anchor(w.fps[c.anchor_mutate].pos, w.fps[c.anchor_mutate].deg), pos)

ctx_orient(w, c, rot) ==
    orient(Anchor(w.fps[c.anchor_template].pos, w.fps[c.anchor_template].deg),
           Anchor(w.fps[c.anchor_mutate].pos, w.fps[c.anchor_mutate].deg), rot)

(***************************************************************************)
(* Host primitives used by the copy functions.                             *)
(***************************************************************************)
VecAdd(a, b) == <<a[1] + b[1], a[2] + b[2]>>

VecNeg(a) == <<-a[1], -a[2]>>

\* The ids of a set in enumeration order.
RECURSIVE SortedSeq(_)
SortedSeq(S) ==
    IF S = {} THEN <<>>
    ELSE LET m == CHOOSE x \in S : \A y \in S : x <= y
         IN  <<m>> \o SortedSeq(S \ {m})

\* board.GetDrawings(), board.Tracks(), board.Zones()
ItemsOn(w, board, cats) ==
    SortedSeq({id \in DOMAIN w.items : w.items[id].board = board /\ w.items[id].cat \in cats})

\* board.GetFootprints()
FootprintsOn(w, board) == SortedSeq({f \in FpIds : w.fps[f].board = board})

NextId(w) == Cardinality(FpIds) + Cardinality(DOMAIN w.items) + 1

\* The host takes a removed item out of its parent group.
Unlink(g, id) ==
    IF GetParentGroup(g, id) = NoGroup THEN g ELSE RemoveItem(g, GetParentGroup(g, id), id)

\* board.RemoveNative(item): the item leaves that board's collection.
RemoveNative(w, board, id) ==
    IF id \in FpIds
    THEN [w EXCEPT !.groups = Unlink(@, id),
                   !.fps[id].board = IF @ = board THEN "none" ELSE @]
    ELSE [w EXCEPT !.groups = Unlink(@, id),
                   !.items[id].board = IF @ = board THEN "none" ELSE @]

\* item.Duplicate() followed by board.Add(copy): a new item, in no group.
DuplicateOnto(w, id, board) ==
    [w EXCEPT !.items = @ @@ (NextId(w) :> [w.items[id] EXCEPT !.board = board])]

\* netMapping.get(sourceNetCode, 0)
MapNet(mapping, sourceNetCode) ==
    IF sourceNetCode \in DOMAIN mapping THEN mapping[sourceNetCode] ELSE 0

(***************************************************************************)
(* clear_volatile_items                                                    *)
(***************************************************************************)
itemTypesToRemove == {"track", "via", "zone", "drawing"}

RECURSIVE clear_loop(_, _, _, _)
clear_loop(w, board, members, types) ==
    IF members = <<>> THEN w
    ELSE clear_loop(IF CatOf(w, Head(members)) \in types
                    THEN RemoveNative(w, board, Head(members)) ELSE w,
                    board, Tail(members), types)

clear_volatile_items(w, group) ==
    clear_loop(w, group[1], SortedSeq(GroupAt(w.groups, group).items),
               itemTypesToRemove)

(***************************************************************************)
(* copy_drawings, copy_traces, copy_zones                                  *)
(***************************************************************************)
\* Lines 172-176 for the copy newDrawing of sourceDrawing.
place_drawing(w, c, sourceDrawing, newDrawing) ==
    [w EXCEPT !.items[newDrawing].pos = ctx_translate(w, c, w.items[sourceDrawing].pos),
              !.items[newDrawing].deg = @ + ctx_orient(w, c, 0)]

RECURSIVE copy_drawings_loop(_, _, _)
copy_drawings_loop(w, c, todo) ==
    IF todo = <<>> THEN w
    ELSE copy_drawings_loop(
             move(place_drawing(DuplicateOnto(w, Head(todo), c.targetBoard),
                                c, Head(todo), NextId(w)),
                  c, NextId(w)),
             c, Tail(todo))

copy_drawings(w, c) ==
    copy_drawings_loop(w, c, ItemsOn(w, c.sourceBoard, {"drawing"}))

\* Lines 189-199 for the copy newTrack of sourceTrack.
place_track(w, c, mapping, sourceTrack, newTrack) ==
    [w EXCEPT !.items[newTrack].net = MapNet(mapping, w.items[sourceTrack].net),
              !.items[newTrack].pos = ctx_translate(w, c, w.items[sourceTrack].pos),
              !.items[newTrack].end = ctx_translate(w, c, w.items[sourceTrack].end),
              !.items[newTrack].free = IF w.items[newTrack].cat = "via" THEN FALSE ELSE @]

RECURSIVE copy_traces_loop(_, _, _, _)
copy_traces_loop(w, c, mapping, todo) ==
    IF todo = <<>> THEN w
    ELSE copy_traces_loop(
             move(place_track(DuplicateOnto(w, Head(todo), c.targetBoard),
                              c, mapping, Head(todo), NextId(w)),
                  c, NextId(w)),
             c, mapping, Tail(todo))

copy_traces(w, c, mapping) ==
    copy_traces_loop(w, c, mapping, ItemsOn(w, c.sourceBoard, {"track", "via"}))

\* Whether the name `self` is bound where the module-level functions
\* copy_zones and enforce_position_footprints read it: it is neither a
\* parameter nor a module global.
SelfIsBound == FALSE

\* Lines 215-232 for the copy newZone of sourceZone.
place_zone(w, c, footprintNetMapping, sourceZone, newZone) ==
    [w EXCEPT !.items[newZone].net = MapNet(footprintNetMapping, w.items[sourceZone].net),
              !.items[newZone].pos =
                  VecAdd(VecAdd(@, VecNeg(@)),
                         ctx_translate(w, c, w.items[sourceZone].pos)),
              !.items[newZone].deg = @ + ctx_orient(w, c, 0)]

\* Lines 211-234, were `self` bound and self._footprintNetMapping a dict.
RECURSIVE copy_zones_loop(_, _, _, _)
copy_zones_loop(w, c, footprintNetMapping, todo) ==
    IF todo = <<>> THEN w
    ELSE copy_zones_loop(
             move(place_zone(DuplicateOnto(w, Head(todo), c.targetBoard),
                             c, footprintNetMapping, Head(todo), NextId(w)),
                  c, NextId(w)),
             c, footprintNetMapping, Tail(todo))

\* copy_zones: `transform = self._transformer` raises NameError.
copy_zones(w, c, mapping) ==
    IF ~SelfIsBound THEN Raise(w, "NameError")
    ELSE copy_zones_loop(w, c, mapping, ItemsOn(w, c.sourceBoard, {"zone"}))

(***************************************************************************)
(* copy_footprint_fields, copy_footprint_data, enforce_position_footprints *)
(***************************************************************************)
FpAnchor(w, f) == Anchor(w.fps[f].pos, w.fps[f].deg)

\* PositionTransform(sourceFootprint, targetFootprint).translate / .orient
fp_translate(w, sourceFootprint, targetFootprint, pos) ==
    translate(FpAnchor(w, sourceFootprint), FpAnchor(w, targetFootprint), pos)

fp_orient(w, sourceFootprint, targetFootprint, rot) ==
    orient(FpAnchor(w, sourceFootprint), FpAnchor(w, targetFootprint), rot)

\* footprint.GetReference(): the text of the Reference field.
GetReference(fp) ==
    fp.fields[CHOOSE j \in 1..Len(fp.fields) : fp.fields[j].name = "Reference"].text

\* footprint.SetReference(text)
SetReference(fields, text) ==
    [j \in 1..Len(fields) |->
        IF fields[j].name = "Reference" THEN [fields[j] EXCEPT !.text = text]
        ELSE fields[j]]

\* Lines 255-262: the clones of the source fields, placed.
CloneFields(w, sourceFootprint, targetFootprint) ==
    [j \in 1..Len(w.fps[sourceFootprint].fields) |->
        [w.fps[sourceFootprint].fields[j] EXCEPT
            !.pos = fp_translate(w, sourceFootprint, targetFootprint, @),
            !.deg = @ + fp_orient(w, sourceFootprint, targetFootprint, 0)]]

copy_footprint_fields(w, sourceFootprint, targetFootprint) ==
    [w EXCEPT !.fps[targetFootprint].fields =
        SetReference(CloneFields(w, sourceFootprint, targetFootprint),
                     GetReference(w.fps[targetFootprint]))]

\* Lines 277-287.  Flip() about the footprint's own position is kept as a
\* change of side only.
copy_properties(w, sourceFootprint, targetFootprint) ==
    [w EXCEPT
       !.fps[targetFootprint].flipped = IF w.fps[sourceFootprint].flipped # @ THEN ~@ ELSE @,
       !.fps[targetFootprint].LocalClearance = w.fps[sourceFootprint].LocalClearance,
       !.fps[targetFootprint].LocalSolderMaskMargin =
           w.fps[sourceFootprint].LocalSolderMaskMargin,
       !.fps[targetFootprint].LocalSolderPasteMargin =
           w.fps[sourceFootprint].LocalSolderPasteMargin,
       !.fps[targetFootprint].LocalSolderPasteMarginRatio =
           w.fps[sourceFootprint].LocalSolderPasteMarginRatio,
       !.fps[targetFootprint].ZoneConnection = w.fps[sourceFootprint].ZoneConnection]

\* Line 290.
set_position(w, sourceFootprint, targetFootprint) ==
    [w EXCEPT !.fps[targetFootprint].pos =
        fp_translate(w, sourceFootprint, targetFootprint, w.fps[sourceFootprint].pos)]

\* Line 291.
set_orientation(w, sourceFootprint, targetFootprint) ==
    [w EXCEPT !.fps[targetFootprint].deg =
        fp_orient(w, sourceFootprint, targetFootprint, w.fps[sourceFootprint].deg)]

\* copy_footprint_data.  The transform is PositionTransform(sourceFootprint,
\* targetFootprint): the two footprints themselves are its anchors.
copy_footprint_data(w, sourceFootprint, targetFootprint) ==
    set_orientation(
        set_position(
            copy_properties(
                copy_footprint_fields(w, sourceFootprint, targetFootprint),
                sourceFootprint, targetFootprint),
            sourceFootprint, targetFootprint),
        sourceFootprint, targetFootprint)

\* The pad loop of lines 318-323 on the world: footprintNetMapping is kept
\* in ret; a target pad index out of range raises IndexError.
RECURSIVE pad_loop(_, _, _, _)
pad_loop(w, sourcePads, targetPads, sourcePadNum) ==
    IF sourcePadNum > Len(sourcePads) THEN w
    ELSE IF sourcePadNum > Len(targetPads) THEN Raise(w, "IndexError")
    ELSE pad_loop([w EXCEPT !.ret = (sourcePads[sourcePadNum] :> targetPads[sourcePadNum])
                                    @@ @],
                  sourcePads, targetPads, sourcePadNum + 1)

\* Lines 315-326 for one pair.
enforce_pair(w, sourceFootprint, targetFootprint) ==
    pad_loop(copy_footprint_data(w, sourceFootprint, targetFootprint),
             w.fps[sourceFootprint].pads, w.fps[targetFootprint].pads, 1)

\* Line 326, reached when the pad loop raised nothing.
claim_footprint(w, c, targetFootprint) ==
    IF w.raised # "none" THEN w ELSE move(w, c, targetFootprint)

\* Lines 303-328, were `self` bound and self._fpTranslator the pairing.
RECURSIVE enforce_loop(_, _, _, _)
enforce_loop(w, c, translator, todo) ==
    IF todo = <<>> \/ w.raised # "none" THEN w
    ELSE IF translator[Head(todo)] = 0
         THEN enforce_loop(w, c, translator, Tail(todo))
    ELSE enforce_loop(
             claim_footprint(enforce_pair(w, Head(todo), translator[Head(todo)]),
                             c, translator[Head(todo)]),
             c, translator, Tail(todo))

\* enforce_position_footprints: `fpTranslator = self._fpTranslator` raises
\* NameError before the loop.  The mapping is returned in ret.
enforce_position_footprints(w, c, translator) ==
    IF ~SelfIsBound THEN Raise(w, "NameError")
    ELSE enforce_loop(w, c, translator, FootprintsOn(w, c.sourceBoard))

(***************************************************************************)
(* The initial boards and the inputs of a run.                             *)
(***************************************************************************)
\* Where the target anchor may sit, and how it may be turned.
TargetAnchorPositions == {<<0, 0>>, <<5, 0>>}

TargetAnchorAngles == {0, 90}

\* The pad lists the target footprint T1 may have against the three pads
\* of its template F1.
T1Pads == {<<5, 6, 7>>, <<5, 6>>}

\* The net mappings a caller may hold (template net code -> target net code).
NetMappings == {<<>>, (1 :> 5), (1 :> 5) @@ (2 :> 6)}

\* The pairings (template footprint -> target footprint, 0 for None).
Pairings ==
    {(Ids.SA :> Ids.TA) @@ (Ids.F1 :> t) @@ (Ids.F2 :> Ids.T2) : t \in {Ids.T1, 0}}

InitFootprints(taPos, taDeg, t1pads) ==
    (Ids.SA :> Footprint("S", <<0, 0>>, 0, FALSE, <<1, 2>>, "R1", 1))
    @@ (Ids.F1 :> Footprint("S", <<2, 1>>, 90, TRUE, <<1, 2, 3>>, "R2", 2))
    @@ (Ids.F2 :> Footprint("S", <<-1, 2>>, 0, FALSE, <<3>>, "R3", 0))
    @@ (Ids.TA :> Footprint("T", taPos, taDeg, FALSE, <<5, 6>>, "R101", 0))
    @@ (Ids.T1 :> Footprint("T", <<7, 7>>, 0, FALSE, t1pads, "R102", 0))
    @@ (Ids.T2 :> Footprint("T", <<8, 3>>, 180, FALSE, <<7>>, "R103", 0))

\* Template track, via, zone and drawing, and a track of the target board.
It == [track |-> 7, via |-> 8, zone |-> 9, drawing |-> 10, old |-> 11]

InitItems ==
    (It.track :> Item("track", "S", 1, <<2, 0>>, <<3, 1>>, 0, FALSE))
    @@ (It.via :> Item("via", "S", 3, <<3, 1>>, <<3, 1>>, 0, TRUE))
    @@ (It.zone :> Item("zone", "S", 2, <<-2, -2>>, <<-2, -2>>, 0, FALSE))
    @@ (It.drawing :> Item("drawing", "S", 0, <<-3, 3>>, <<-3, 3>>, 0, FALSE))
    @@ (It.old :> Item("track", "T", 5, <<9, 9>>, <<9, 8>>, 0, FALSE))

SourceGroupLayouts ==
    {<<>>,
     <<Group(groupName, {})>>,
     <<Group(groupName, {}), Group(otherName, {It.via}),
       Group(groupName, {It.drawing, Ids.F2})>>}

TargetGroupLayouts ==
    {<<Group(otherName, {Ids.T1, It.old})>>,
     <<Group(groupName, {It.old}), Group(otherName, {Ids.T1})>>}

\* The items a caller claims on its own, besides those the copy functions claim.
ClaimCandidates == {Ids.T1, It.old}

NoSnap == [taken |-> FALSE, counts |-> <<0, 0, 0, 0>>, refs |-> <<>>]

NoProbe == [anchor_template |-> Anchor(<<0, 0>>, 0), anchor_mutate |-> Anchor(<<0, 0>>, 0),
            pos |-> <<0, 0>>, done |-> FALSE, out |-> <<0, 0>>]

VARIABLE probe

allvars == <<vars, probe>>

Now == World(fps, items, groups, claimed)

Pre == [fps |-> fps, items |-> items, groups |-> groups, ctx |-> ctx,
        claimed |-> claimed, netMapping |-> netMapping]

\* The numbers of tracks, vias, zones and drawings on a board.
Counts(w, board) ==
    <<Len(ItemsOn(w, board, {"track"})), Len(ItemsOn(w, board, {"via"})),
      Len(ItemsOn(w, board, {"zone"})), Len(ItemsOn(w, board, {"drawing"}))>>

TargetFootprintIds == {Ids.TA, Ids.T1, Ids.T2}

\* Reference designator, position and orientation of the target footprints.
Refs(w) ==
    [t \in TargetFootprintIds |-> <<GetReference(w.fps[t]), w.fps[t].pos, w.fps[t].deg>>]

Init ==
    /\ \E taPos \in TargetAnchorPositions, taDeg \in TargetAnchorAngles, p \in T1Pads :
          fps = InitFootprints(taPos, taDeg, p)
    /\ items = InitItems
    /\ \E sg \in SourceGroupLayouts, tg \in TargetGroupLayouts :
          groups = [b \in Boards |-> IF b = "S" THEN sg ELSE tg]
    /\ netMapping \in NetMappings
    /\ fpTranslator \in Pairings
    /\ ctx = NoCtx
    /\ pc = "idle"
    /\ run = 0
    /\ log = <<>>
    /\ raised = "none"
    /\ moved = FALSE
    /\ last = [op |-> "none", arg |-> 0]
    /\ claimed = {}
    /\ pre = Pre
    /\ snap = NoSnap
    /\ probe = NoProbe

\* What every call leaves behind: the world after it, and a record of the call.
Apply(w, op, arg) ==
    /\ fps' = w.fps
    /\ items' = w.items
    /\ groups' = w.groups
    /\ raised' = w.raised
    /\ moved' = w.moved
    /\ claimed' = w.claimed
    /\ last' = [op |-> op, arg |-> arg]
    /\ pre' = Pre
    /\ UNCHANGED <<fpTranslator, log, probe>>

\* The caller keeps the context the constructor returns.
Constructed(w) == Apply(w, "ReplicateContext", 0) /\ ctx' = w.ret

\* The caller keeps the mapping the footprint phase returns.
Enforced(w) ==
    /\ Apply(w, "enforce_position_footprints", 0)
    /\ netMapping' = IF w.raised = "none" THEN w.ret ELSE netMapping

\* The end of a run; the target board as the first run leaves it is kept.
RunEnded(w) ==
    /\ Apply(w, "copy_zones", 0)
    /\ snap' = IF snap.taken THEN snap
               ELSE [taken |-> TRUE, counts |-> Counts(w, ctx.targetBoard),
                     refs |-> Refs(w)]

(***************************************************************************)
(* A replication run: the context is built, then the phases follow in      *)
(* order; a phase that raises is reported and the next phase still runs.   *)
(***************************************************************************)
StartRun ==
    /\ pc = "idle"
    /\ run < MaxRuns
    /\ Constructed(ReplicateContext_init(World(fps, items, groups, {}),
                                         Ids.SA, Ids.TA, groupName))
    /\ pc' = "purge"
    /\ run' = run + 1
    /\ UNCHANGED <<netMapping, snap>>

Purge ==
    /\ pc = "purge"
    /\ Apply(clear_volatile_items(Now, ctx.group), "clear_volatile_items", 0)
    /\ pc' = "footprints"
    /\ UNCHANGED <<ctx, run, netMapping, snap>>

\* copy_footprint_data called for one pair.
CopyFootprintData ==
    /\ pc = "footprints"
    /\ \E f \in {Ids.F1, Ids.F2} :
          /\ fpTranslator[f] # 0
          /\ Apply(copy_footprint_data(Now, f, fpTranslator[f]), "copy_footprint_data", f)
    /\ UNCHANGED <<ctx, pc, run, netMapping, snap>>

Footprints ==
    /\ pc = "footprints"
    /\ Enforced(enforce_position_footprints(Now, ctx, fpTranslator))
    /\ pc' = "drawings"
    /\ UNCHANGED <<ctx, run, snap>>

Drawings ==
    /\ pc = "drawings"
    /\ Apply(copy_drawings(Now, ctx), "copy_drawings", 0)
    /\ pc' = "traces"
    /\ UNCHANGED <<ctx, run, netMapping, snap>>

Traces ==
    /\ pc = "traces"
    /\ Apply(copy_traces(Now, ctx, netMapping), "copy_traces", 0)
    /\ pc' = "zones"
    /\ UNCHANGED <<ctx, run, netMapping, snap>>

Zones ==
    /\ pc = "zones"
    /\ RunEnded(copy_zones(Now, ctx, netMapping))
    /\ pc' = "idle"
    /\ UNCHANGED <<ctx, run, netMapping>>

\* context.move(item) called by the caller of the run.
Claim ==
    /\ pc \in {"footprints", "drawings", "traces", "zones"}
    /\ \E item \in ClaimCandidates : Apply(move(Now, ctx, item), "move", item)
    /\ UNCHANGED <<ctx, pc, run, netMapping, snap>>

Next == StartRun \/ Purge \/ CopyFootprintData \/ Footprints \/ Drawings
        \/ Traces \/ Zones \/ Claim

Spec == Init /\ [][Next]_allvars

(***************************************************************************)
(* PositionTransform.translate on its own: the anchors and the point are   *)
(* drawn from bounded sets and the function is applied once.               *)
(***************************************************************************)
\* Largest coordinate of a template point.
MaxCoord == 10

Angles == {0, 90, 180, -90}

TemplateAnchors == {Anchor(p, d) : p \in {<<0, 0>>, <<1, -2>>}, d \in Angles}

MutateAnchors ==
    {Anchor(p, d) : p \in {<<0, 0>>, <<5, 0>>, <<100, 50>>, <<-3, 4>>}, d \in Angles}

Points == {<<x, y>> : x \in -MaxCoord..MaxCoord, y \in -MaxCoord..MaxCoord}

InitTransform ==
    /\ fps = InitFootprints(<<0, 0>>, 0, <<5, 6, 7>>)
    /\ items = InitItems
    /\ groups = [b \in Boards |-> <<>>]
    /\ netMapping = <<>>
    /\ fpTranslator = (Ids.SA :> Ids.TA) @@ (Ids.F1 :> Ids.T1) @@ (Ids.F2 :> Ids.T2)
    /\ ctx = NoCtx
    /\ pc = "idle"
    /\ run = 0
    /\ log = <<>>
    /\ raised = "none"
    /\ moved = FALSE
    /\ last = [op |-> "none", arg |-> 0]
    /\ claimed = {}
    /\ pre = Pre
    /\ snap = NoSnap
    /\ \E at \in TemplateAnchors, am \in MutateAnchors, p \in Points :
          probe = [anchor_template |-> at, anchor_mutate |-> am, pos |-> p,
                   done |-> FALSE, out |-> <<0, 0>>]

Translate ==
    /\ ~probe.done
    /\ probe' = [probe EXCEPT !.done = TRUE,
                              !.out = translate(probe.anchor_template,
                                                probe.anchor_mutate, probe.pos)]
    /\ UNCHANGED vars

NextTransform == Translate

SpecTransform == InitTransform /\ [][NextTransform]_allvars

(***************************************************************************)
(* Properties                                                              *)
(***************************************************************************)
PreWorld == World(pre.fps, pre.items, pre.groups, pre.claimed)

Holders(g, id) == {r \in ExistingGroups(g) : id \in GroupAt(g, r).items}

PairedSources == {f \in FpIds : fps[f].board = "S" /\ fpTranslator[f] # 0}

UnpairedSources == {f \in FpIds : fps[f].board = "S" /\ fpTranslator[f] = 0}

MinLen(a, b) == IF Len(a) < Len(b) THEN Len(a) ELSE Len(b)

Mismatched == {f \in PairedSources : Len(fps[f].pads) # Len(fps[fpTranslator[f]].pads)}

CountLevel(level) == Cardinality({i \in 1..Len(log) : log[i] = level})

NewItems == DOMAIN items \ DOMAIN pre.items

\* The target footprint of F sits where the transform of the run's anchor
\* pair puts F.
FollowsRunTransform(f) ==
    /\ fps[fpTranslator[f]].pos = ctx_translate(PreWorld, ctx, pre.fps[f].pos)
    /\ fps[fpTranslator[f]].deg = ctx_orient(PreWorld, ctx, pre.fps[f].deg)

\* C1: after copy_footprint_data for a pair (F, T), called directly or by the
\* footprint phase, T.position = translate(F.position) and T.orientation =
\* orient(F.orientation) under the transform of the run's anchor pair.
C1_TargetFollowsRunTransform ==
    /\ last.op = "copy_footprint_data" => FollowsRunTransform(last.arg)
    /\ last.op = "enforce_position_footprints" =>
          \A f \in PairedSources : FollowsRunTransform(f)

\* C2: constructing the context binds the group to the target board: the
\* bound group is a group of the target board with the configured name, and
\* the groups of the template board are as before.
C2_GroupBoundToTarget ==
    last.op = "ReplicateContext" =>
        /\ ctx.group[1] = ctx.targetBoard
        /\ \E i \in 1..Len(groups[ctx.targetBoard]) :
              groups[ctx.targetBoard][i].name = groupName
        /\ groups[ctx.sourceBoard] = pre.groups[ctx.sourceBoard]

\* C3: every item claimed in the run is in exactly one group, whose name is
\* the configured name; a claim of an item held by a group of another name
\* takes it out of that group and returns moved = TRUE; a claim of an item
\* already claimed changes no group and returns moved = FALSE.
C3_ClaimedInOneGroup ==
    /\ \A i \in claimed :
          /\ Cardinality(Holders(groups, i)) = 1
          /\ \A r \in Holders(groups, i) : GroupAt(groups, r).name = groupName
    /\ last.op = "move" =>
          /\ \A r \in Holders(pre.groups, last.arg) :
                GroupAt(pre.groups, r).name # groupName =>
                    /\ last.arg \notin GroupAt(groups, r).items
                    /\ moved
          /\ last.arg \in pre.claimed => groups = pre.groups /\ ~moved

\* C3 witness: an item that another group held has been claimed, and a
\* second claim of an item has just returned.
C3_Witness ==
    /\ last.op = "move"
    /\ last.arg \in pre.claimed
    /\ ~moved
    /\ Ids.T1 \in claimed
    /\ Ids.T1 \in GroupAt(groups, ctx.group).items

\* Every template item of the categories has a copy on the target board
\* whose net is the mapped net, or net 0 when the mapping has no entry.
CopiesRemapped(cats) ==
    /\ raised = "none"
    /\ \A s \in {id \in DOMAIN pre.items : pre.items[id].board = ctx.sourceBoard
                                           /\ pre.items[id].cat \in cats} :
          \E n \in NewItems :
              /\ items[n].cat = pre.items[s].cat
              /\ items[n].board = ctx.targetBoard
              /\ items[n].net = MapNet(netMapping, pre.items[s].net)

\* C4: the track/via phase and the zone phase each copy every template item
\* with its net remapped through the mapping (0 when absent).
C4_CopiesRemapped ==
    /\ last.op = "copy_traces" => CopiesRemapped({"track", "via"})
    /\ last.op = "copy_zones" => CopiesRemapped({"zone"})

\* C5: with a pair of different pad counts the footprint phase does not
\* fail, maps the pads below the shorter count, and logs one WARNING for
\* each such pair.
C5_PadMismatchTolerated ==
    (last.op = "enforce_position_footprints" /\ Mismatched # {}) =>
        /\ raised = "none"
        /\ \A f \in PairedSources :
              \A i \in 1..MinLen(fps[f].pads, fps[fpTranslator[f]].pads) :
                  /\ fps[f].pads[i] \in DOMAIN netMapping
                  /\ netMapping[fps[f].pads[i]] = fps[fpTranslator[f]].pads[i]
        /\ CountLevel(WARNING) = Cardinality(Mismatched)

\* C6: a template footprint without a counterpart is skipped with one INFO
\* diagnostic, and the paired footprints are still processed.
C6_UnpairedSkippedWithInfo ==
    (last.op = "enforce_position_footprints" /\ UnpairedSources # {}) =>
        /\ raised = "none"
        /\ CountLevel(INFO) = Cardinality(UnpairedSources)
        /\ \A f \in PairedSources : fpTranslator[f] \in claimed

\* C7: the target board after the second run has as many tracks, vias,
\* zones and drawings as after the first, and its footprints have the same
\* reference, position and orientation.
C7_SecondRunChangesNothing ==
    (run = 2 /\ pc = "idle") =>
        /\ Counts(Now, ctx.targetBoard) = snap.counts
        /\ Refs(Now) = snap.refs

\* The inputs of the probed translate call.
ProbeDelta == probe.anchor_mutate.deg - probe.anchor_template.deg

ProbeDx == probe.pos[1] - probe.anchor_template.pos[1]

ProbeDy == probe.pos[2] - probe.anchor_template.pos[2]

ProbeIsRotationScenario ==
    /\ probe.anchor_template = Anchor(<<0, 0>>, 0)
    /\ probe.anchor_mutate = Anchor(<<0, 0>>, 90)
    /\ probe.pos = <<10, 0>>

\* v is the exact value, or the integer next to it toward zero.
Truncated(v, exact) == v = exact \/ v = exact - Sgn(exact)

\* C8 as stated: a 90 degree delta maps an offset (dx, dy) to the target
\* anchor position + (-dy, dx), so that (10, 0) goes to (0, 10); a 0 degree
\* delta maps it to the target anchor position + (dx, dy).
C8_RotatesCounterClockwise ==
    probe.done =>
        /\ ProbeDelta = 90 =>
              probe.out = VecAdd(probe.anchor_mutate.pos, <<-ProbeDy, ProbeDx>>)
        /\ ProbeDelta = 0 =>
              probe.out = VecAdd(probe.anchor_mutate.pos, <<ProbeDx, ProbeDy>>)
        /\ ProbeIsRotationScenario => probe.out = <<0, 10>>

\* C8 amended: a 90 degree delta maps an offset (dx, dy) to the target
\* anchor position + (dy, -dx), each coordinate being that value or, through
\* int() of the floating-point sum, the integer next to it toward zero, and
\* exactly that value for x when dx = 0 and for y when dy = 0, so that
\* (10, 0) goes to (0, -10); a 0 degree delta maps the offset to exactly the
\* target anchor position + (dx, dy).
C8_RotatesAsCoded ==
    probe.done =>
        /\ ProbeDelta = 90 =>
              /\ Truncated(probe.out[1], probe.anchor_mutate.pos[1] + ProbeDy)
              /\ Truncated(probe.out[2], probe.anchor_mutate.pos[2] - ProbeDx)
              /\ ProbeDx = 0 => probe.out[1] = probe.anchor_mutate.pos[1] + ProbeDy
              /\ ProbeDy = 0 => probe.out[2] = probe.anchor_mutate.pos[2] - ProbeDx
        /\ ProbeDelta = 0 =>
              probe.out = VecAdd(probe.anchor_mutate.pos, <<ProbeDx, ProbeDy>>)
        /\ ProbeIsRotationScenario => probe.out = <<0, -10>>

\* C8 witness: the rotation scenario has been computed.
C8_Witness == probe.done /\ ProbeIsRotationScenario /\ probe.out = <<0, -10>>

\* The members the purged group had before the purge.
PurgedMembers == GroupAt(pre.groups, pre.ctx.group).items

\* C9: the purge of a group removes every track, via, zone and drawing the
\* group held from the design, removes no footprint and no item the group
\* did not hold, and leaves no track, via, zone or drawing in the group.
C9_PurgeRemovesGroupedVolatiles ==
    last.op = "clear_volatile_items" =>
        /\ \A m \in PurgedMembers :
              CatOf(PreWorld, m) \in Volatile => BoardOf(Now, m) = "none"
        /\ \A f \in FpIds : fps[f].board = pre.fps[f].board
        /\ \A id \in DOMAIN items \ PurgedMembers : items[id].board = pre.items[id].board
        /\ \A m \in GroupAt(groups, ctx.group).items : CatOf(Now, m) \notin Volatile

\* The groups of the manager's board that had the configured name when the
\* context was built.
SameNamed == {i \in 1..Len(pre.groups[ctx.board]) : pre.groups[ctx.board][i].name = groupName}

\* No group but the bound one has gained an item in the last call.
OnlyBoundGroupGains ==
    \A r \in ExistingGroups(pre.groups) :
        r # ctx.group => GroupAt(groups, r).items \subseteq GroupAt(pre.groups, r).items

\* C10 as stated: with several groups of the configured name the manager
\* binds to the first of them, creates no group, and claims add to it.
C10_FirstSameNamedGroupWins ==
    /\ (last.op = "ReplicateContext" /\ Cardinality(SameNamed) > 1) =>
          /\ ctx.group = <<ctx.board, CHOOSE i \in SameNamed : \A j \in SameNamed : i <= j>>
          /\ groups = pre.groups
    /\ last.op \in {"move", "copy_drawings", "copy_traces"} => OnlyBoundGroupGains

\* C10 amended: with several groups of the configured name the manager binds
\* to the last of them in enumeration order, creates no group, and every
\* item a later claim adds to a group is added to that last group.
C10_LastSameNamedGroupWins ==
    /\ (last.op = "ReplicateContext" /\ Cardinality(SameNamed) > 1) =>
          /\ ctx.group = <<ctx.board, CHOOSE i \in SameNamed : \A j \in SameNamed : i >= j>>
          /\ groups = pre.groups
    /\ last.op \in {"move", "copy_drawings", "copy_traces"} => OnlyBoundGroupGains

\* C10 witness: the board holds several groups of the configured name, the
\* context is bound to the last one, and a claim has added an item to it.
C10_Witness ==
    /\ last.op \in {"move", "copy_drawings", "copy_traces"}
    /\ Cardinality({i \in 1..Len(groups[ctx.board]) :
                       groups[ctx.board][i].name = groupName}) > 1
    /\ ctx.group[2] = Len(groups[ctx.board])
    /\ GroupAt(groups, ctx.group).items # GroupAt(pre.groups, ctx.group).items

====
